---- MODULE Spec2Model ----
(***************************************************************************)
(* YouTubeDataFetcher (src/preprocessing/gather_data.py): the public       *)
(* operations of the class as a state machine.  One invocation of one     *)
(* operation is followed from its call to its return (or to the error it  *)
(* lets escape).  The platform API is the environment: every call either  *)
(* raises or answers.                                                      *)
(*                                                                         *)
(* Python's None is the empty set and a present value v the set {v}, so   *)
(* "x if x else None", dict.get and truthiness are modelled on optionals. *)
(***************************************************************************)
EXTENDS Integers, Sequences, FiniteSets, TLC

VARIABLES
    op,                 \* the public operation that was called
    pc,                 \* position inside that operation
    raised,             \* TRUE once an exception has escaped to the caller
    returned,           \* value handed back by the single-call operations
    api,                \* behaviour of the platform API during this call
    max_videos,         \* fetch_channel_videos argument
    category,           \* fetch_channel_videos argument (optional string)
    target_category_id, \* local of fetch_channel_videos (optional string)
    subscriber_count,   \* local of fetch_channel_videos
    video_details,      \* local of fetch_channel_videos: list of records
    next_page_token,    \* local of fetch_channel_videos (optional token)
    response,           \* local: last search response
    item_idx,           \* local: position of the for loop in response items
    video_category_id,  \* local: category id of the video being assembled
    result,             \* rows of the DataFrame handed back
    nreq,               \* history: number of API requests issued so far
    failure,            \* history: {} or {snapshot taken when the page loop raised}
    page_requests,      \* history: every search request issued
    page_log,           \* history: per processed page, its token and the count after it
    probe_log,          \* history: outcome of the last comment probe
    sample_size,        \* get_top_channels_by_category argument
    channels,           \* local of get_top_channels_by_category
    channel_page_token, \* local next_page_token of get_top_channels_by_category
    channel_pages,      \* history: channel search requests issued
    indices,            \* local of get_top_channels_by_category after np.unique
    sampled             \* list get_top_channels_by_category returns

vars == <<op, pc, raised, returned, api, max_videos, category, target_category_id,
          subscriber_count, video_details, next_page_token, response, item_idx,
          video_category_id, result, nreq, failure, page_requests, page_log,
          probe_log, sample_size, channels, channel_page_token, channel_pages,
          indices, sampled>>

fetchVars == <<max_videos, category, target_category_id, subscriber_count,
               video_details, next_page_token, response, item_idx,
               video_category_id, result, nreq, failure, page_requests, page_log,
               probe_log>>

samplerVars == <<sample_size, channels, channel_page_token, channel_pages,
                 indices, sampled>>

-----------------------------------------------------------------------------
(* Bounds of the model *)

MaxPages == 2        \* pages a small API scenario serves
MaxPageSize == 2     \* videos on one page of a small scenario
MaxVideos == 2       \* largest max_videos of a small scenario
MaxSample == 2       \* largest sample_size
MaxBatch == 2        \* channels one channel page delivers
MaxChannelPages == 2 \* channel pages the API chains

(* Program constant: maxResults=min(50, ...) *)
PageLimit == 50

-----------------------------------------------------------------------------
(* Python helpers *)

None == {}

Some(v) == {v}

Val(o) == CHOOSE v \in o : TRUE

Min(a, b) == IF a < b THEN a ELSE b

Max(a, b) == IF a > b THEN a ELSE b

Digits == <<"0", "1", "2", "3", "4", "5", "6", "7", "8", "9">>

RECURSIVE StrInt(_)
StrInt(n) == IF n < 10 THEN Digits[n + 1]
             ELSE StrInt(n \div 10) \o Digits[(n % 10) + 1]

\* str(x) of an optional int: str(None) is the text "None"
Str(o) == IF o = None THEN "None" ELSE StrInt(Val(o))

\* truthiness of an optional string: None and "" are falsy
TruthyStr(o) == o # None /\ o # Some("")

\* truthiness of an optional page token
TruthyTokenNever(o) == FALSE

TruthyToken(o) == o # None

\* self.category_ids
category_ids ==
    [film_animation |-> 1, autos |-> 2, music |-> 10, pets_animals |-> 15,
     sports |-> 17, gaming |-> 20, blogging |-> 22, comedy |-> 23,
     entertainment |-> 24, news_politics |-> 25, howto_style |-> 26,
     education |-> 27, science_tech |-> 28, nonprofits |-> 29]

\* dict.get(key): None when the key is absent (or is None itself)
DictGet(d, k) == IF k # None /\ Val(k) \in DOMAIN d THEN Some(d[Val(k)]) ELSE None

\* target_category_id = str(self.category_ids.get(category)) if category else None
TargetCategoryId(cat) ==
    IF TruthyStr(cat) THEN Some(Str(DictGet(category_ids, cat))) ELSE None

\* if target_category_id and video_category_id != target_category_id: continue
SkipVideoNever(target, cat) == FALSE

SkipVideo(target, cat) == TruthyStr(target) /\ cat # Val(target)

\* while len(video_details) < max_videos
LoopContinuesAlways(len, max) == TRUE

LoopContinues(len, max) == len < max

\* if len(video_details) >= max_videos: break
BreakAfterAppendNever(len, max) == FALSE

BreakAfterAppend(len, max) == len >= max

\* maxResults=min(50, max_videos - len(video_details))
MaxResults(len, max) == Min(PageLimit, max - len)

\* try: commentThreads().list(...).execute(); True   except: False
ProbeEnabledAlways(outcome) == TRUE

ProbeEnabled(outcome) == outcome = "ok"

-----------------------------------------------------------------------------
(* The platform API as fetch_channel_videos sees it.  A scenario fixes the *)
(* pages of the channel listing and which outcomes each kind of call can   *)
(* have; the answer to one call is chosen among them when it is made.      *)
(* A page is served as it is, whatever maxResults asks for: an API that    *)
(* truncates the page to maxResults behaves as the scenario with the       *)
(* shorter page does.                                                      *)

Outcomes == {"ok", "fail"}

VideoCats == {"20", "None"}

Categories == {None, Some(""), Some("gaming"), Some("bogus")}

RECURSIVE SeqsUpTo(_, _)
SeqsUpTo(S, n) ==
    IF n = 0 THEN {<<>>}
    ELSE LET shorter == SeqsUpTo(S, n - 1)
         IN  shorter \cup {Append(s, x) : s \in {t \in shorter : Len(t) = n - 1}, x \in S}

SmallApis ==
    [sizes : SeqsUpTo(0..MaxPageSize, MaxPages) \ {<<>>},
     search : {Outcomes}, details : {{"ok", "empty", "fail"}},
     probe : {Outcomes}, cats : {VideoCats}]

\* the mock of the end-to-end test: three canned pages, every call succeeds
MockApi ==
    [sizes |-> <<50, 50, 10>>,
     search |-> {"ok"}, details |-> {"ok"}, probe |-> {"ok"}, cats |-> {"20"}]

\* the call of the end-to-end test: max_videos=120, no category filter
MockCall == [api |-> MockApi, max_videos |-> 120, category |-> None]

SmallCalls == [api : SmallApis, max_videos : 0..MaxVideos, category : Categories]

\* the page a pageToken addresses: no token is the first page
PageOf(tok) == IF tok = None THEN 1 ELSE Val(tok)

\* the search response to a request
SearchResponse(a, req) ==
    LET p == PageOf(req.pageToken)
    IN  [items |-> [i \in 1..a.sizes[p] |-> [page |-> p, pos |-> i]],
         nextPageToken |-> IF p < Len(a.sizes) THEN Some(p + 1) ELSE None]

NoResponse == [items |-> <<>>, nextPageToken |-> None]

NoApi == [sizes |-> <<>>, search |-> {}, details |-> {},
          probe |-> {}, cats |-> {}]

-----------------------------------------------------------------------------
(* fetch_channel_videos *)

Fetching == op = "fetch_channel_videos"

InitFetchLocals ==
    /\ target_category_id = None
    /\ subscriber_count = 0
    /\ video_details = <<>>
    /\ next_page_token = None
    /\ response = NoResponse
    /\ item_idx = 0
    /\ video_category_id = None
    /\ result = <<>>
    /\ nreq = 0
    /\ failure = None
    /\ page_requests = <<>>
    /\ page_log = <<>>
    /\ probe_log = None

InitSamplerLocals ==
    /\ channels = <<>>
    /\ channel_page_token = None
    /\ channel_pages = 0
    /\ indices = <<>>
    /\ sampled = <<>>

InitFetch ==
    /\ op = "fetch_channel_videos"
    /\ pc = "start"
    /\ raised = FALSE
    /\ returned = None
    /\ \E c \in SmallCalls \cup {MockCall} :
          /\ api = c.api
          /\ max_videos = c.max_videos
          /\ category = c.category
    /\ InitFetchLocals
    /\ sample_size = 0
    /\ InitSamplerLocals

\* lines 106-134: resolve the filter, fetch the subscriber count (best effort)
FetchStart ==
    /\ Fetching /\ pc = "start"
    /\ target_category_id' = TargetCategoryId(category)
    /\ \E o \in Outcomes :
          subscriber_count' = IF o = "ok" THEN 1 ELSE 0
    /\ nreq' = nreq + 1
    /\ pc' = "while"
    /\ UNCHANGED <<op, raised, returned, api, max_videos, category, video_details,
                   next_page_token, response, item_idx, video_category_id, result,
                   failure, page_requests, page_log, probe_log>>
    /\ UNCHANGED samplerVars

\* line 137: while len(video_details) < max_videos
WhileTest ==
    /\ Fetching /\ pc = "while"
    /\ pc' = IF LoopContinues(Len(video_details), max_videos) THEN "search" ELSE "return"
    /\ UNCHANGED <<op, raised, returned, api>>
    /\ UNCHANGED fetchVars
    /\ UNCHANGED samplerVars

\* lines 139-148: the request for the next page
SearchRequest ==
    [pageToken |-> next_page_token,
     maxResults |-> MaxResults(Len(video_details), max_videos)]

\* lines 139-149, the call answers: a page of items and perhaps a token
SearchOk ==
    /\ Fetching /\ pc = "search"
    /\ "ok" \in api.search
    /\ page_requests' = Append(page_requests, SearchRequest)
    /\ response' = SearchResponse(api, SearchRequest)
    /\ nreq' = nreq + 1
    /\ item_idx' = 1
    /\ pc' = "for"
    /\ UNCHANGED <<op, raised, returned, api, max_videos, category,
                   target_category_id, subscriber_count, video_details,
                   next_page_token, video_category_id, result, failure, page_log,
                   probe_log>>
    /\ UNCHANGED samplerVars

\* what is known when the page loop raises
Snapshot(n) == Some([details |-> video_details, nreq |-> n])

\* lines 211-212: except Exception: print(...), then fall to the return
ExceptSwallowed(next) == next

Except(next) == "return"

\* lines 139-149, the call raises
SearchFail ==
    /\ Fetching /\ pc = "search"
    /\ "fail" \in api.search
    /\ page_requests' = Append(page_requests, SearchRequest)
    /\ nreq' = nreq + 1
    /\ failure' = Snapshot(nreq')
    /\ pc' = Except("token")
    /\ UNCHANGED <<op, raised, returned, api, max_videos, category,
                   target_category_id, subscriber_count, video_details,
                   next_page_token, response, item_idx, video_category_id, result,
                   page_log, probe_log>>
    /\ UNCHANGED samplerVars

MoreItems == item_idx <= Len(response.items)

\* lines 156-160, the details call raises
DetailsFail ==
    /\ Fetching /\ pc = "for" /\ MoreItems
    /\ "fail" \in api.details
    /\ nreq' = nreq + 1
    /\ failure' = Snapshot(nreq')
    /\ pc' = Except("for")
    /\ UNCHANGED <<op, raised, returned, api, max_videos, category,
                   target_category_id, subscriber_count, video_details,
                   next_page_token, response, item_idx, video_category_id, result,
                   page_requests, page_log, probe_log>>
    /\ UNCHANGED samplerVars

\* lines 156-168: no record for the video: the details response has no items,
\* or the category check skips it
DetailsSkip ==
    /\ Fetching /\ pc = "for" /\ MoreItems
    /\ \/ "empty" \in api.details
       \/ /\ "ok" \in api.details
          /\ \E c \in api.cats : SkipVideo(target_category_id, c)
    /\ nreq' = nreq + 1
    /\ item_idx' = item_idx + 1
    /\ UNCHANGED <<op, pc, raised, returned, api, max_videos, category,
                   target_category_id, subscriber_count, video_details,
                   next_page_token, response, video_category_id, result, failure,
                   page_requests, page_log, probe_log>>
    /\ UNCHANGED samplerVars

\* lines 156-172: the video passes the category check
DetailsPass ==
    /\ Fetching /\ pc = "for" /\ MoreItems
    /\ "ok" \in api.details
    /\ \E c \in api.cats :
          /\ ~SkipVideo(target_category_id, c)
          /\ video_category_id' = Some(c)
    /\ nreq' = nreq + 1
    /\ pc' = "probe"
    /\ UNCHANGED <<op, raised, returned, api, max_videos, category,
                   target_category_id, subscriber_count, video_details,
                   next_page_token, response, item_idx, result, failure,
                   page_requests, page_log, probe_log>>
    /\ UNCHANGED samplerVars

VideoRecord(item, cat, enabled) ==
    [video_id |-> item, category_id |-> cat, comments_enabled |-> enabled,
     current_subscriber_count |-> subscriber_count]

\* lines 174-205: comment probe, append the record, break at the maximum
ProbeAppend ==
    /\ Fetching /\ pc = "probe"
    /\ \E o \in api.probe :
          /\ probe_log' = Some(o)
          /\ video_details' =
                Append(video_details,
                       VideoRecord(response.items[item_idx], Val(video_category_id),
                                   ProbeEnabled(o)))
    /\ nreq' = nreq + 1
    /\ IF BreakAfterAppend(Len(video_details'), max_videos)
       THEN pc' = "token" /\ item_idx' = item_idx
       ELSE pc' = "for" /\ item_idx' = item_idx + 1
    /\ UNCHANGED <<op, raised, returned, api, max_videos, category,
                   target_category_id, subscriber_count, next_page_token, response,
                   video_category_id, result, failure, page_requests, page_log>>
    /\ UNCHANGED samplerVars

\* the for loop is exhausted
EndFor ==
    /\ Fetching /\ pc = "for" /\ ~MoreItems
    /\ pc' = "token"
    /\ UNCHANGED <<op, raised, returned, api>>
    /\ UNCHANGED fetchVars
    /\ UNCHANGED samplerVars

\* lines 207-209 with the token assignment lost
TakeTokenStale ==
    /\ Fetching /\ pc = "token"
    /\ next_page_token' = next_page_token
    /\ page_log' = Append(page_log, [token |-> response.nextPageToken,
                                     collected |-> Len(video_details)])
    /\ pc' = IF TruthyToken(response.nextPageToken) THEN "while" ELSE "return"
    /\ UNCHANGED <<op, raised, returned, api, max_videos, category,
                   target_category_id, subscriber_count, video_details, response,
                   item_idx, video_category_id, result, nreq, failure,
                   page_requests, probe_log>>
    /\ UNCHANGED samplerVars

\* lines 207-209: next_page_token = response.get('nextPageToken'); break if none
TakeToken ==
    /\ Fetching /\ pc = "token"
    /\ next_page_token' = response.nextPageToken
    /\ page_log' = Append(page_log, [token |-> response.nextPageToken,
                                     collected |-> Len(video_details)])
    /\ pc' = IF TruthyToken(next_page_token') THEN "while" ELSE "return"
    /\ UNCHANGED <<op, raised, returned, api, max_videos, category,
                   target_category_id, subscriber_count, video_details, response,
                   item_idx, video_category_id, result, nreq, failure,
                   page_requests, probe_log>>
    /\ UNCHANGED samplerVars

\* line 214: return pd.DataFrame(video_details)
FetchReturn ==
    /\ Fetching /\ pc = "return"
    /\ result' = video_details
    /\ pc' = "done"
    /\ UNCHANGED <<op, raised, returned, api, max_videos, category,
                   target_category_id, subscriber_count, video_details,
                   next_page_token, response, item_idx, video_category_id, nreq,
                   failure, page_requests, page_log, probe_log>>
    /\ UNCHANGED samplerVars

NextFetch ==
    \/ FetchStart
    \/ WhileTest
    \/ SearchOk
    \/ SearchFail
    \/ DetailsFail
    \/ DetailsSkip
    \/ DetailsPass
    \/ ProbeAppend
    \/ EndFor
    \/ TakeToken
    \/ FetchReturn

-----------------------------------------------------------------------------
(* get_top_channels_by_category *)

Sampling == op = "get_top_channels_by_category"

InitSampler ==
    /\ op = "get_top_channels_by_category"
    /\ pc = "s_while"
    /\ raised = FALSE
    /\ returned = None
    /\ api = NoApi
    /\ max_videos = 0
    /\ category = None
    /\ InitFetchLocals
    /\ sample_size \in 0..MaxSample
    /\ InitSamplerLocals

\* line 319: while len(channels) < sample_size * 2
SamplerWhile ==
    /\ Sampling /\ pc = "s_while"
    /\ pc' = IF Len(channels) < sample_size * 2 THEN "s_fetch" ELSE "s_sample"
    /\ UNCHANGED <<op, raised, returned, api>>
    /\ UNCHANGED fetchVars
    /\ UNCHANGED samplerVars

\* subscriber counts the statistics response reports: ties and strict order
SubscriberCounts == {1, 2}

\* lines 340-346: one summary per channel of the statistics response
ChannelSummaries(first, subs) ==
    [i \in 1..Len(subs) |-> [channel_id |-> first + i, subscriber_count |-> subs[i]]]

\* lines 321-350: both calls of the iteration answer
ChannelPageOk ==
    /\ Sampling /\ pc = "s_fetch"
    /\ channel_pages < MaxChannelPages
    /\ channel_pages' = channel_pages + 1
    /\ \E subs \in SeqsUpTo(SubscriberCounts, MaxBatch) :
          channels' = channels \o ChannelSummaries(Len(channels), subs)
    /\ \E more \in BOOLEAN :
          channel_page_token' =
              IF more /\ channel_pages' < MaxChannelPages
              THEN Some(channel_pages' + 1) ELSE None
    /\ pc' = IF TruthyToken(channel_page_token') THEN "s_while" ELSE "s_sample"
    /\ UNCHANGED <<op, raised, returned, api, sample_size, indices, sampled>>
    /\ UNCHANGED fetchVars

\* lines 352-354: a call of the iteration raises: print and break
ChannelPageFail ==
    /\ Sampling /\ pc = "s_fetch"
    /\ channel_pages < MaxChannelPages
    /\ channel_pages' = channel_pages + 1
    /\ pc' = "s_sample"
    /\ UNCHANGED <<op, raised, returned, api, sample_size, channels,
                   channel_page_token, indices, sampled>>
    /\ UNCHANGED fetchVars

\* list.sort(key=subscriber_count, reverse=True): stable, descending
RECURSIVE InsertBySubs(_, _)
InsertBySubs(s, x) ==
    IF s = <<>> THEN <<x>>
    ELSE IF Head(s).subscriber_count >= x.subscriber_count
         THEN <<Head(s)>> \o InsertBySubs(Tail(s), x)
         ELSE <<x>> \o s

RECURSIVE SortBySubs(_)
SortBySubs(s) ==
    IF s = <<>> THEN <<>>
    ELSE InsertBySubs(SortBySubs(SubSeq(s, 1, Len(s) - 1)), s[Len(s)])

\* sorted(xs) of a list of ints
RECURSIVE InsertAsc(_, _)
InsertAsc(s, x) ==
    IF s = <<>> THEN <<x>>
    ELSE IF Head(s) <= x THEN <<Head(s)>> \o InsertAsc(Tail(s), x)
         ELSE <<x>> \o s

RECURSIVE Sorted(_)
Sorted(s) ==
    IF s = <<>> THEN <<>>
    ELSE InsertAsc(Sorted(SubSeq(s, 1, Len(s) - 1)), s[Len(s)])

\* Values np.random.normal(0, n/4, size) can produce, in units of one half:
\* below zero, whole and fractional, and beyond the last index.
HalfDraws(n) == (-1)..(2 * n - 1)

\* np.clip(x, 0, n - 1) on a value in half units
Clip(h, n) == Max(0, Min(h, 2 * (n - 1)))

\* .astype(int): truncation toward zero of a value in half units
AsTypeInt(h) == IF h >= 0 THEN h \div 2 ELSE -((-h) \div 2)

\* np.unique(xs): the distinct values in ascending order
RECURSIVE SetAsc(_)
SetAsc(S) ==
    IF S = {} THEN <<>>
    ELSE LET m == CHOOSE x \in S : \A y \in S : x <= y
         IN  <<m>> \o SetAsc(S \ {m})

UniqueKeepsDuplicates(xs) == Sorted(xs)

Unique(xs) == SetAsc({xs[i] : i \in 1..Len(xs)})

\* if len(channels) > sample_size
SampleNeededAtEqual(n, size) == n >= size

SampleNeeded(n, size) == n > size

\* lines 365-366
Indices(d, n) == Unique([i \in 1..Len(d) |-> AsTypeInt(Clip(d[i], n))])

\* lines 369-370: [channels[i] for i in sorted(indices)][:sample_size]
Select(chs, idx, size) ==
    LET srt == Sorted(idx)
        all == [k \in 1..Len(srt) |-> chs[srt[k] + 1]]
    IN  SubSeq(all, 1, Min(size, Len(all)))

\* lines 356-372: sort, then sample or return everything
SamplerSample ==
    /\ Sampling /\ pc = "s_sample"
    /\ channels' = SortBySubs(channels)
    /\ IF SampleNeeded(Len(channels'), sample_size)
       THEN \E d \in [1..sample_size -> HalfDraws(Len(channels'))] :
               /\ indices' = Indices(d, Len(channels'))
               /\ sampled' = Select(channels', indices', sample_size)
       ELSE /\ sampled' = channels'
            /\ UNCHANGED indices
    /\ pc' = "done"
    /\ UNCHANGED <<op, raised, returned, api, sample_size, channel_page_token,
                   channel_pages>>
    /\ UNCHANGED fetchVars

NextSampler ==
    \/ SamplerWhile
    \/ ChannelPageOk
    \/ ChannelPageFail
    \/ SamplerSample

-----------------------------------------------------------------------------
(* The single-call operations *)

SingleCallOps == {"get_channel_id", "get_guide_categories", "save_to_csv"}

InitSingle ==
    /\ op \in SingleCallOps
    /\ pc = "start"
    /\ raised = FALSE
    /\ returned = None
    /\ api = NoApi
    /\ max_videos = 0
    /\ category = None
    /\ InitFetchLocals
    /\ sample_size = 0
    /\ InitSamplerLocals

\* lines 48-62: try: search, first item's id or None; except: None
GetChannelId ==
    /\ op = "get_channel_id" /\ pc = "start"
    /\ \E o \in {"ok", "empty", "fail"} :
          returned' = IF o = "ok" THEN Some("channelId") ELSE None
    /\ pc' = "done"
    /\ UNCHANGED <<op, raised, api>>
    /\ UNCHANGED fetchVars
    /\ UNCHANGED samplerVars

\* lines 256-266: the request is executed outside any try
GetGuideCategories ==
    /\ op = "get_guide_categories" /\ pc = "start"
    /\ \E o \in Outcomes :
          IF o = "ok"
          THEN returned' = Some("categories") /\ pc' = "done" /\ UNCHANGED raised
          ELSE raised' = TRUE /\ pc' = "raised" /\ UNCHANGED returned
    /\ UNCHANGED <<op, api>>
    /\ UNCHANGED fetchVars
    /\ UNCHANGED samplerVars

\* lines 239-243: try: to_csv; except: print
SaveToCsv ==
    /\ op = "save_to_csv" /\ pc = "start"
    /\ \E o \in Outcomes :
          returned' = IF o = "ok" THEN Some("written") ELSE None
    /\ pc' = "done"
    /\ UNCHANGED <<op, raised, api>>
    /\ UNCHANGED fetchVars
    /\ UNCHANGED samplerVars

-----------------------------------------------------------------------------

Init == InitFetch \/ InitSampler \/ InitSingle

Next ==
    \/ FetchStart
    \/ WhileTest
    \/ SearchOk
    \/ SearchFail
    \/ DetailsFail
    \/ DetailsSkip
    \/ DetailsPass
    \/ ProbeAppend
    \/ EndFor
    \/ TakeToken
    \/ FetchReturn
    \/ SamplerWhile
    \/ ChannelPageOk
    \/ ChannelPageFail
    \/ SamplerSample
    \/ GetChannelId
    \/ GetGuideCategories
    \/ SaveToCsv

Spec == Init /\ [][Next]_vars

\* the collector alone; every call it makes answers or raises, and the
\* sequential program always takes its next step
FairSpec == InitFetch /\ [][NextFetch]_vars /\ WF_vars(NextFetch)

-----------------------------------------------------------------------------
(* Properties *)

\* C1: the number of accumulated records never exceeds max_videos, in any
\* state of the collection loop, and neither does the number returned.
C1_AtMostMax ==
    Fetching => Len(video_details) <= max_videos /\ Len(result) <= max_videos

\* the maximum is reached in the middle of a page and the break leaves the
\* rest of the page unprocessed
C1_Witness ==
    /\ Fetching /\ pc = "done"
    /\ max_videos >= 1 /\ Len(result) = max_videos
    /\ item_idx < Len(response.items)

MockDone ==
    /\ Fetching /\ pc = "done"
    /\ api = MockApi /\ max_videos = MockCall.max_videos /\ category = None

PagesOf(rows) == {rows[i].video_id.page : i \in 1..Len(rows)}

\* C2 as stated: pages of 50, 50 and 10 videos, no filter, max_videos=120:
\* exactly 120 records are returned.
C2_Exactly120 == MockDone => Len(result) = 120

\* C2 amended: pages of 50, 50 and 10 videos, no filter, max_videos=120:
\* exactly 110 records are returned, one per video served, from all three pages.
C2_All110 ==
    MockDone => /\ Len(result) = 110
                /\ PagesOf(result) = {1, 2, 3}
                /\ Len(page_requests) = 3

C2_Witness == MockDone /\ Len(result) = 110 /\ failure = None

\* the id the hardcoded table resolves each filter name of the model to
ResolvedFilterId(cat) ==
    CASE cat = Some("gaming") -> "20"
      [] cat = Some("bogus") -> "None"

\* C3: with a category filter supplied, every record collected or returned
\* carries the filter id resolved from the hardcoded table, as a string
\* ("None" for a name absent from the table).
C3_RecordsMatchFilter ==
    (Fetching /\ TruthyStr(category)) =>
        /\ \A i \in 1..Len(video_details) :
              video_details[i].category_id = ResolvedFilterId(category)
        /\ \A i \in 1..Len(result) :
              result[i].category_id = ResolvedFilterId(category)

\* a filter name absent from the table, a record kept and a video without one
C3_Witness ==
    /\ Fetching /\ pc = "done" /\ failure = None
    /\ category = Some("bogus")
    /\ Len(result) >= 1
    /\ nreq > 1 + Len(page_requests) + 2 * Len(result)

\* C4: once a search call or a details call has raised, no further API
\* request is issued, nothing escapes to the caller, and the records
\* returned are exactly those accumulated before the failure, in order.
C4_FailureEndsCollection ==
    failure # None =>
        /\ pc \in {"return", "done"}
        /\ nreq = Val(failure).nreq
        /\ video_details = Val(failure).details
        /\ ~raised
        /\ pc = "done" => result = Val(failure).details

\* a details call fails on the second page after records were collected
C4_Witness ==
    /\ failure # None /\ pc = "done"
    /\ Len(page_requests) = 2 /\ Len(page_log) = 1
    /\ Len(result) >= 1 /\ item_idx >= 1 /\ response.items # <<>>
    /\ PagesOf(result) = {1}

\* C5: no public operation lets a transport/API error escape to its caller.
C5_NoErrorEscapes == ~raised

SampledFrom == {channels[i] : i \in 1..Len(channels)}

PosOf(c) == CHOOSE i \in 1..Len(channels) : channels[i] = c

\* C6: with more candidates than sample_size, whatever the draws, the result
\* has at most sample_size entries, each a candidate, taken at pairwise
\* distinct positions in ascending order (subscriber count descending).
C6_SampleWellFormed ==
    (Sampling /\ pc = "done" /\ Len(channels) > sample_size) =>
        /\ Len(sampled) <= sample_size
        /\ \A k \in 1..Len(sampled) : sampled[k] \in SampledFrom
        /\ \A j, k \in 1..Len(sampled) :
              j < k => /\ PosOf(sampled[j]) < PosOf(sampled[k])
                       /\ sampled[j].subscriber_count >= sampled[k].subscriber_count

\* four candidates of different subscriber counts, the first and the last
\* of them selected
C6_Witness ==
    /\ Sampling /\ pc = "done" /\ Len(channels) = 4 /\ sample_size = 2
    /\ sampled = <<channels[1], channels[4]>>
    /\ channels[1].subscriber_count > channels[4].subscriber_count
    /\ channels[1].channel_id > channels[4].channel_id

\* C7: with no more candidates than sample_size (equal included), the result
\* is all candidates: the same entries, none dropped, added or altered, in
\* subscriber order, and nothing is drawn.
C7_AllReturned ==
    [][(Sampling /\ pc = "s_sample" /\ Len(channels) <= sample_size) =>
         /\ Len(sampled') = Len(channels)
         /\ {sampled'[i] : i \in 1..Len(sampled')} = SampledFrom
         /\ sampled' = channels'
         /\ \A j, k \in 1..Len(sampled') :
               j < k => sampled'[j].subscriber_count >= sampled'[k].subscriber_count
         /\ indices' = <<>>]_vars

\* as many candidates as sample_size, all returned
C7_Witness ==
    /\ Sampling /\ pc = "done"
    /\ sample_size >= 2 /\ Len(channels) = sample_size
    /\ sampled = channels /\ indices = <<>>

\* page i was processed with fewer than max_videos records collected and
\* its response carried a continuation token
MayContinue(i) ==
    page_log[i].collected < max_videos /\ page_log[i].token # None

\* C8: after a processed page another page request is issued if and only if
\* fewer than max_videos records are collected and the response carried a
\* token; and the collector eventually returns.
C8_StopRule ==
    /\ [](\A i \in 1..Len(page_log) :
            /\ i < Len(page_requests) => MayContinue(i)
            /\ (pc = "done" /\ MayContinue(i)) => i < Len(page_requests))
    /\ <>(pc = "done")

\* a filtered collection stops at the maximum although a token remains
C8_Witness ==
    /\ Fetching /\ pc = "done" /\ failure = None
    /\ TruthyStr(category)
    /\ Len(page_log) = 1 /\ Len(page_requests) = 1
    /\ page_log[1].token # None /\ page_log[1].collected = max_videos

LastRecord(rows) == rows[Len(rows)]

\* C9: the comment probe decides only comments_enabled: whatever its
\* outcome the record of the video is appended, with the flag true exactly
\* when the probe succeeded, no failure is recorded, and collection goes on
\* with the next video unless the maximum is reached.
C9_ProbeOnlySetsFlag ==
    [][(Fetching /\ pc = "probe") =>
         /\ Len(video_details') = Len(video_details) + 1
         /\ SubSeq(video_details', 1, Len(video_details)) = video_details
         /\ LastRecord(video_details').video_id = response.items[item_idx]
         /\ LastRecord(video_details').category_id = Val(video_category_id)
         /\ LastRecord(video_details').comments_enabled = (probe_log' = Some("ok"))
         /\ failure' = failure /\ ~raised'
         /\ pc' \in {"for", "token"}
         /\ Len(video_details') < max_videos =>
               pc' = "for" /\ item_idx' = item_idx + 1]_vars

\* the probe of a video fails and the next video of the page is collected
C9_Witness ==
    /\ Fetching /\ Len(video_details) >= 2
    /\ ~video_details[1].comments_enabled
    /\ video_details[2].comments_enabled
    /\ video_details[2].video_id.page = video_details[1].video_id.page

\* C10: the first page request carries no token, every later one carries
\* the token of the page response just before it, and no token is used
\* twice: pages are requested in the order the API chains them.
C10_TokenChain ==
    Fetching =>
        /\ Len(page_requests) >= 1 => page_requests[1].pageToken = None
        /\ \A i \in 2..Len(page_requests) :
              /\ i - 1 <= Len(page_log)
              /\ page_log[i - 1].token # None
              /\ page_requests[i].pageToken = page_log[i - 1].token
        /\ \A i, j \in 1..Len(page_requests) :
              i < j => page_requests[i].pageToken # page_requests[j].pageToken
        /\ \A i \in 1..Len(page_requests) : PageOf(page_requests[i].pageToken) = i

\* three pages requested in a row
C10_Witness ==
    /\ Fetching /\ pc = "done"
    /\ Len(page_requests) = 3
    /\ page_requests[2].pageToken = Some(2)
    /\ page_requests[3].pageToken = Some(3)
    /\ page_requests[3].maxResults = 20

====
